---------------------------- MODULE Spec2Model ----------------------------
(***************************************************************************)
(* Model of py_uds_lib (src/src/py_uds_lib.py): the Services request       *)
(* builder and the three identifier catalogs Sid, Sfid and Nrc.            *)
(*                                                                         *)
(* A Python str is a sequence of one-character strings, so that hex and    *)
(* decimal formatting, joining and tokenising are computed, not assumed.   *)
(* An optional argument is a sequence of length 0 (None) or 1 (supplied).  *)
(* A call either returns a str or raises; both outcomes are modelled.      *)
(***************************************************************************)
EXTENDS Integers, Sequences, FiniteSets, TLC

VARIABLES
  pc,       \* "idle": no call in progress; "returned": a builder call ended
  call,     \* the builder call that ended last: [op, args, after], after being
            \* the caller's argument objects as the call left them
  result,   \* its outcome: [raised |-> "" or the exception, str |-> the request]
  printed,  \* number of lines the call wrote to stdout
  cat,      \* the catalog object the caller obtained last: [kind, obj, assigned],
            \* assigned being the attributes the caller has stored into since
  memo      \* an earlier call and its outcome, kept by the caller for comparison

vars == <<pc, call, result, printed, cat, memo>>

---------------------------------------------------------------------------
(* Bounds of the input space *)

\* longest list drawn for a list argument
MaxLen == 2
\* scalar arguments of the one-parameter services range over -MaxNeg..MaxVal
MaxVal == 300
MaxNeg == 3
\* convert_int_to_str_of_bytes is applied to every integer in 0..MaxConv
MaxConv == 600

---------------------------------------------------------------------------
(* Python values *)

None == <<>>
Some(x) == <<x>>
IsNone(o) == o = <<>>
Opt(S) == {None} \cup {Some(x) : x \in S}

Ok(s) == [raised |-> "", str |-> s, printed |-> 0]
Raise(e) == [raised |-> e, str |-> <<>>, printed |-> 0]

---------------------------------------------------------------------------
(* str formatting *)

HexDigits ==
  <<"0", "1", "2", "3", "4", "5", "6", "7", "8", "9", "A", "B", "C", "D", "E", "F">>

\* the digits of n >= 0 in the given base, most significant first
RECURSIVE Digits(_, _)
Digits(n, base) ==
  IF n < base THEN <<HexDigits[n + 1]>>
  ELSE Digits(n \div base, base) \o <<HexDigits[(n % base) + 1]>>

\* f'{v}': decimal, no padding
Str(v) == IF v < 0 THEN <<"-">> \o Digits(0 - v, 10) ELSE Digits(v, 10)

\* f'{v:X}': the format with the zero padding left out
FmtX(v) == IF v < 0 THEN <<"-">> \o Digits(0 - v, 16) ELSE Digits(v, 16)

\* f'{v:02X}': uppercase hex, zero-padded to a minimum width of 2 (the sign counts)
Fmt02X(v) ==
  IF v < 0 THEN <<"-">> \o Digits(0 - v, 16)
  ELSE IF v < 16 THEN <<"0">> \o Digits(v, 16)
  ELSE Digits(v, 16)

\* sep.join(strs)
RECURSIVE Join(_, _)
Join(sep, strs) ==
  IF Len(strs) = 0 THEN <<>>
  ELSE IF Len(strs) = 1 THEN strs[1]
  ELSE strs[1] \o sep \o Join(sep, Tail(strs))

SP == <<" ">>

\* v & 0xFF on a Python int (two's complement of unbounded width)
And0xFF(v) == v % 256

\* v >> (i * 8) on a Python int; model integers are below 2^31 in magnitude
Shr8(v, i) ==
  IF i >= 4 THEN (IF v < 0 THEN 0 - 1 ELSE 0)
  ELSE v \div (256 ^ i)

\* " ".join([f"{value & 0xFF:02X}" for value in record])
MaskedList(record) ==
  Join(SP, [i \in 1..Len(record) |-> Fmt02X(And0xFF(record[i]))])

\* the same join with reversed() left out: least significant byte first
LittleEndian(v, n) ==
  Join(SP, [k \in 1..n |-> Fmt02X(And0xFF(Shr8(v, k - 1)))])

\* " ".join([f"{(v >> (i * 8)) & 0xFF:02X}" for i in reversed(range(n))])
BigEndian(v, n) ==
  Join(SP, [k \in 1..n |-> Fmt02X(And0xFF(Shr8(v, n - k)))])

---------------------------------------------------------------------------
(* Identifier catalogs: the statements of each __init__, in source order,  *)
(* as <<long name, short alias, value>> for self.long = self.short = value *)

SidInit ==
  <<
    <<"diagnostic_session_control", "DSC", 16>>,
    <<"ecu_reset", "ER", 17>>,
    <<"security_access", "SA", 39>>,
    <<"communication_control", "CC", 40>>,
    <<"tester_present", "TP", 62>>,
    <<"access_timing_parameter", "ATP", 131>>,
    <<"secured_data_transmission", "SDT", 132>>,
    <<"control_dtc_setting", "CDTCS", 133>>,
    <<"response_on_event", "ROE", 134>>,
    <<"link_control", "LC", 135>>,
    <<"read_data_by_identifier", "RDBI", 34>>,
    <<"read_memory_by_address", "RMBA", 35>>,
    <<"read_scaling_data_by_identifier", "RSDBI", 36>>,
    <<"read_data_by_periodic_identifier", "RDBPI", 42>>,
    <<"dynamically_define_data_identifier", "DDDI", 44>>,
    <<"write_data_by_identifier", "WDBI", 46>>,
    <<"write_memory_by_address", "WMBA", 61>>,
    <<"clear_diagnostic_information", "CDTCI", 20>>,
    <<"read_dtc_information", "RDTCI", 25>>,
    <<"input_output_control_by_identifier", "IOCBI", 47>>,
    <<"routine_control", "RC", 49>>,
    <<"request_download", "RD", 52>>,
    <<"request_upload", "RU", 53>>,
    <<"transfer_data", "TD", 54>>,
    <<"request_transfer_exit", "RTE", 55>>,
    <<"request_file_transfer", "RFT", 56>>,
    <<"negative_response", "NR", 127>>
  >>

SfidInit ==
  <<
    <<"default_session", "DS", 1>>,
    <<"programming_session", "PRGS", 2>>,
    <<"extended_session", "EXTDS", 3>>,
    <<"safety_system_diagnostic_session", "SSDS", 4>>,
    <<"hard_reset", "HR", 1>>,
    <<"key_on_off_reset", "KOFFONR", 2>>,
    <<"soft_reset", "SR", 3>>,
    <<"enable_rapid_power_shutdown", "ERPSD", 4>>,
    <<"disable_rapid_power_shutdown", "DRPSD", 5>>,
    <<"request_seed", "RSD", 1>>,
    <<"send_key", "SK", 2>>,
    <<"enable_rx_and_tx", "ERXTX", 0>>,
    <<"enable_rx_and_disable_tx", "ERXDTX", 1>>,
    <<"disable_rx_and_enable_tx", "DRXETX", 2>>,
    <<"disable_rx_and_tx", "DRXTX", 3>>,
    <<"enable_rx_and_disable_tx_with_enhanced_address_information", "ERXDTXWEAI", 4>>,
    <<"enable_rx_and_tx_with_enhanced_address_information", "ERXTXWEAI", 5>>,
    <<"zero_sub_function", "ZSUBF", 0>>,
    <<"read_extended_timing_parameter_set", "RETPS", 1>>,
    <<"set_timing_parameters_to_default_value", "STPTDV", 2>>,
    <<"read_currently_active_timing_parameters", "RCATP", 3>>,
    <<"set_timing_parameters_to_given_values", "STPTGV", 4>>,
    <<"on", "ON", 1>>,
    <<"off", "OFF", 2>>,
    <<"do_not_store_event", "DNSE", 0>>,
    <<"store_event", "SE", 1>>,
    <<"stop_response_on_event", "STPROE", 0>>,
    <<"on_dtc_status_change", "ONDTCS", 1>>,
    <<"on_timer_interrupt", "OTI", 2>>,
    <<"on_change_of_data_identifier", "OCODID", 3>>,
    <<"report_activated_events", "RAE", 4>>,
    <<"start_response_on_event", "STRTROE", 5>>,
    <<"clear_response_on_event", "CLRROE", 6>>,
    <<"on_comparison_of_value", "OCOV", 7>>,
    <<"verify_mode_transition_with_fixed_parameter", "VMTWFP", 1>>,
    <<"verify_mode_transition_with_specific_parameter", "VMTWSP", 2>>,
    <<"transition_mode", "TM", 3>>,
    <<"define_by_identifier", "DBID", 1>>,
    <<"define_by_memory_address", "DBMA", 2>>,
    <<"clear_dynamically_defined_data_identifier", "CDDDID", 3>>,
    <<"report_number_of_dtc_by_status_mask", "RNODTCBSM", 1>>,
    <<"report_dtc_by_status_mask", "RDTCBSM", 2>>,
    <<"report_dtc_snapshot_identification", "RDTCSSI", 3>>,
    <<"report_dtc_snapshot_record_by_dtc_number", "RDTCSSBDTC", 4>>,
    <<"read_dtc_stored_data_by_record_number", "RDTCSDBRN", 5>>,
    <<"report_dtc_ext_data_record_by_dtc_number", "RDTCEDRBDN", 6>>,
    <<"report_number_of_dtc_by_severity_mask_record", "RNODTCBSMR", 7>>,
    <<"report_dtc_by_severity_mask_record", "RDTCBSMR", 8>>,
    <<"report_severity_information_of_dtc", "RSIODTC", 9>>,
    <<"report_mirror_memory_dtc_ext_data_record_by_dtc_number", "RMDEDRBDN", 16>>,
    <<"report_supported_dtc", "RSUPDTC", 10>>,
    <<"report_first_test_failed_dtc", "RFTFDTC", 11>>,
    <<"report_first_confirmed_dtc", "RFCDTC", 12>>,
    <<"report_most_recent_test_failed_dtc", "RMRTFDTC", 13>>,
    <<"report_most_recent_confirmed_dtc", "RMRCDTC", 14>>,
    <<"report_mirror_memory_dtc_by_status_mask", "RMMDTCBSM", 15>>,
    <<"report_number_of_mirror_memory_dtc_by_status_mask", "RNOMMDTCBSM", 17>>,
    <<"report_number_of_emission_obd_dtc_by_status_mask", "RNOOEBDDTCBSM", 18>>,
    <<"report_emission_obd_dtc_by_status_mask", "ROBDDTCBSM", 19>>,
    <<"report_dtc_fault_detection_counter", "RDTCFDC", 20>>,
    <<"report_dtc_with_permanent_status", "RDTCWPS", 21>>,
    <<"report_dtc_ext_data_record_by_record_number", "RDTCEDRBR", 22>>,
    <<"report_user_def_memory_dtc_by_status_mask", "RUDMDTCBSM", 23>>,
    <<"report_user_def_memory_dtc_snapshot_record_by_dtc_number", "RUDMDTCSSBDTC", 24>>,
    <<"report_user_def_memory_dtc_ext_data_record_by_dtc_number", "RUDMDTCEDRBDN", 25>>,
    <<"report_wwh_obd_dtc_by_mask_record", "ROBDDTCBMR", 66>>,
    <<"report_wwh_obd_dtc_with_permanent_status", "RWWHOBDDTCWPS", 85>>,
    <<"start_routine", "STR", 1>>,
    <<"stop_routine", "STPR", 2>>,
    <<"request_routine_result", "RRR", 3>>
  >>

NrcInit ==
  <<
    <<"general_reject", "GR", 16>>,
    <<"service_not_supported", "SNS", 17>>,
    <<"sub_function_not_supported", "SFNS", 18>>,
    <<"incorrect_message_length_or_invalid_format", "IMLOIF", 19>>,
    <<"response_too_long", "RTL", 20>>,
    <<"busy_repeat_request", "BRR", 33>>,
    <<"conditions_not_correct", "CNC", 34>>,
    <<"request_sequence_error", "RSE", 36>>,
    <<"no_response_from_subnet_component", "NRFSC", 37>>,
    <<"failure_prevents_execution_of_requested_action", "FPEORA", 38>>,
    <<"request_out_of_range", "ROOR", 49>>,
    <<"security_access_denied", "SAD", 51>>,
    <<"invalid_key", "IK", 53>>,
    <<"exceeded_number_of_attempts", "ENOA", 54>>,
    <<"required_time_delay_not_expired", "RTDNE", 55>>,
    <<"upload_download_not_accepted", "UDNA", 112>>,
    <<"transfer_data_suspended", "TDS", 113>>,
    <<"general_programming_failure", "GPF", 114>>,
    <<"wrong_block_sequence_counter", "WBSC", 115>>,
    <<"request_correctly_received_response_pending", "RCRRP", 120>>,
    <<"sub_function_not_supported_in_active_session", "SFNSIAS", 126>>,
    <<"service_not_supported_in_active_session", "SNSIAS", 127>>,
    <<"rpm_too_high", "RPMTH", 129>>,
    <<"rpm_too_low", "RPMTL", 130>>,
    <<"engine_is_running", "EIR", 131>>,
    <<"engine_is_not_running", "EINR", 132>>,
    <<"engine_run_time_too_low", "ERTTL", 133>>,
    <<"temperature_too_high", "TEMPTH", 134>>,
    <<"temperature_too_low", "TEMPTL", 135>>,
    <<"vehicle_speed_too_high", "VSTH", 136>>,
    <<"vehicle_speed_too_low", "VSTL", 137>>,
    <<"throttle_or_pedal_too_high", "TPTH", 138>>,
    <<"throttle_or_pedal_too_low", "TPTL", 139>>,
    <<"transmission_range_not_in_neutral", "TRNIN", 140>>,
    <<"transmission_range_not_in_gear", "TRNIG", 141>>,
    <<"brake_switch_not_closed", "BSNC", 143>>,
    <<"shifter_lever_not_in_park", "SLNIP", 144>>,
    <<"torque_converter_clutch_locked", "TCCL", 145>>,
    <<"voltage_too_high", "VTH", 146>>,
    <<"voltage_too_low", "VTL", 147>>
  >>

\* the attribute stores a chained assignment performs, left target first
Assignments(init) ==
  [k \in 1..(2 * Len(init)) |->
     <<init[(k + 1) \div 2][IF k % 2 = 1 THEN 1 ELSE 2], init[(k + 1) \div 2][3]>>]

\* the object after __init__: every attribute holds what was stored last
Construct(init) ==
  LET asg == Assignments(init)
      names == {asg[k][1] : k \in DOMAIN asg}
      last(n) == CHOOSE k \in DOMAIN asg :
                   /\ asg[k][1] = n
                   /\ \A j \in DOMAIN asg : asg[j][1] = n => j <= k
  IN [n \in names |-> asg[last(n)][2]]

\* Sid with ecu_reset stored again, with the value of diagnostic_session_control
SidValueReused ==
  Construct(SidInit \o <<<<"ecu_reset", "ER", 16>>>>)

Sid == Construct(SidInit)

\* Sfid with one more concept whose short alias is already taken by store_event
SfidAliasReused ==
  Construct(SfidInit \o <<<<"stop_event", "SE", 2>>>>)

Sfid == Construct(SfidInit)

Nrc == Construct(NrcInit)

---------------------------------------------------------------------------
(* Services: one operator per builder method, returning Ok(str) or Raise   *)

\* the SID read from the catalog object the caller holds, as if self.sid
\* returned one shared instance
SidTokShared(alias) ==
  Fmt02X(IF cat.kind = "Sid" THEN cat.obj[alias] ELSE Sid[alias])

\* f'{self.sid.X:02X}' on a fresh Sid()
SidTok(alias) == Fmt02X(Sid[alias])

\* ---- convert_int_to_str_of_bytes and what it calls

\* int.bit_length(): the bits of the magnitude
RECURSIVE bit_length(_)
bit_length(v) ==
  IF v < 0 THEN bit_length(0 - v)
  ELSE IF v = 0 THEN 0
  ELSE 1 + bit_length(v \div 2)

\* round(bits / 8): Python 3 rounds a half to the even neighbour
round_div8(bits) ==
  LET q == bits \div 8
      r == bits % 8
  IN IF r < 4 THEN q
     ELSE IF r > 4 THEN q + 1
     ELSE IF q % 2 = 0 THEN q ELSE q + 1

\* whether int.to_bytes(length) raises OverflowError (unsigned, big-endian)
to_bytes_overflows(v, length) ==
  \/ v < 0
  \/ length < 4 /\ v >= 256 ^ length

\* the bytes of int.to_bytes(length), most significant first
to_bytes(v, length) == [k \in 1..length |-> And0xFF(Shr8(v, length - k))]

convert_int_to_str_of_bytes(integer_value) ==
  LET number_of_bytes == round_div8(bit_length(integer_value))
      bytes == to_bytes(integer_value, number_of_bytes)
  IN IF to_bytes_overflows(integer_value, number_of_bytes)
     THEN Raise("OverflowError")
     ELSE Ok(Join(SP, [k \in 1..Len(bytes) |-> Fmt02X(bytes[k])]))

\* the first exception among the results of statements run in order, or ""
RECURSIVE FirstRaised(_)
FirstRaised(rs) ==
  IF Len(rs) = 0 THEN ""
  ELSE IF rs[1].raised # "" THEN rs[1].raised
  ELSE FirstRaised(Tail(rs))

\* the outcome of a method whose statements gave rs and whose last builds request
Then(rs, request) ==
  IF FirstRaised(rs) # "" THEN Raise(FirstRaised(rs)) ELSE Ok(request)

\* ---- Diagnostic and communication management

diagnostic_session_control(diagnostic_session_type) ==
  Ok(SidTok("DSC") \o SP \o Fmt02X(diagnostic_session_type))

ecu_reset(reset_type) ==
  Ok(SidTok("ER") \o SP \o Fmt02X(reset_type))

security_access(security_access_type, security_access_data_record) ==
  LET request == SidTok("SA") \o SP \o Fmt02X(And0xFF(security_access_type))
  IN IF ~IsNone(security_access_data_record)
     THEN Ok(request \o SP \o MaskedList(security_access_data_record[1]))
     ELSE Ok(request)

communication_control(control_type, communication_type, node_identification_number) ==
  LET request == SidTok("CC") \o SP \o Fmt02X(And0xFF(control_type))
                   \o SP \o Fmt02X(And0xFF(communication_type))
      node == node_identification_number[1]
  IN IF ~IsNone(node_identification_number)
     THEN Ok(request \o SP \o Fmt02X(And0xFF(Shr8(node, 1)))
                     \o SP \o Str(And0xFF(node)))
     ELSE Ok(request)

tester_present(zero_sub_functions) ==
  Ok(SidTok("TP") \o SP \o Fmt02X(And0xFF(zero_sub_functions)))

access_timing_parameter(timing_parameter_access_type, timing_parameter_request_record) ==
  LET request == SidTok("ATP") \o SP \o Fmt02X(And0xFF(timing_parameter_access_type))
  IN IF ~IsNone(timing_parameter_request_record)
     THEN Ok(request \o SP \o MaskedList(timing_parameter_request_record[1]))
     ELSE Ok(request)

secured_data_transmission(security_data_request_record) ==
  Ok(SidTok("SDT") \o SP \o MaskedList(security_data_request_record))

control_dtc_setting(dtc_setting_type, dtc_setting_control_option_record) ==
  LET request == SidTok("CDTCS") \o SP \o Fmt02X(And0xFF(dtc_setting_type))
  IN IF ~IsNone(dtc_setting_control_option_record)
     THEN Ok(request \o SP \o MaskedList(dtc_setting_control_option_record[1]))
     ELSE Ok(request)

response_on_event(event_type, event_window_time, event_type_record, service_to_respond_to_record) ==
  LET r0 == SidTok("ROE") \o SP \o Fmt02X(And0xFF(event_type))
              \o SP \o Fmt02X(And0xFF(event_window_time))
      r1 == IF ~IsNone(event_type_record)
            THEN r0 \o SP \o MaskedList(event_type_record[1]) ELSE r0
      r2 == IF ~IsNone(service_to_respond_to_record)
            THEN r1 \o SP \o MaskedList(service_to_respond_to_record[1]) ELSE r1
  IN Ok(r2)

link_control(link_control_type, link_control_mode_identifier, link_record) ==
  LET r0 == SidTok("LC") \o SP \o Fmt02X(And0xFF(link_control_type))
      r1 == IF ~IsNone(link_control_mode_identifier)
            THEN r0 \o SP \o Str(link_control_mode_identifier[1]) ELSE r0
      lr == link_record[1]
      r2 == IF ~IsNone(link_record)
            THEN r1 \o SP \o Fmt02X(And0xFF(Shr8(lr, 2)))
                    \o SP \o Fmt02X(And0xFF(Shr8(lr, 1)))
                    \o SP \o Str(And0xFF(lr))
            ELSE r1
  IN Ok(r2)

\* ---- Data transmission

read_data_by_identifier(data_identifier) ==
  Ok(SidTok("RDBI") \o SP \o
     Join(SP, [i \in 1..Len(data_identifier) |->
                 Fmt02X(And0xFF(Shr8(data_identifier[i], 1))) \o SP \o
                 Str(And0xFF(data_identifier[i]))]))

read_memory_by_address(address_and_length_format_identifier, memory_address, memory_size) ==
  LET r0 == SidTok("RMBA") \o SP \o Str(And0xFF(address_and_length_format_identifier))
      length_of_memory_address == address_and_length_format_identifier % 16
      length_of_memory_size == (address_and_length_format_identifier \div 16) % 16
      r1 == r0 \o SP \o BigEndian(memory_address, length_of_memory_address)
      r2 == r1 \o SP \o BigEndian(memory_size, length_of_memory_size)
  IN Ok(r2)

read_scaling_data_by_identifier(data_identifier) ==
  Ok(SidTok("RSDBI") \o SP \o Fmt02X(And0xFF(Shr8(data_identifier, 1)))
                     \o SP \o Fmt02X(And0xFF(data_identifier)))

read_data_by_periodic_identifier(transmission_mode, periodic_data_identifier) ==
  LET r0 == SidTok("RDBPI") \o SP \o Fmt02X(transmission_mode)
  IN Ok(r0 \o SP \o MaskedList(periodic_data_identifier))

\* the 4-tuple with the source identifier put before the target identifier
DefineByIdentifierSourceFirst(params) ==
  Fmt02X(And0xFF(Shr8(params[2], 1))) \o SP \o Fmt02X(And0xFF(params[2])) \o SP \o
  Fmt02X(And0xFF(Shr8(params[1], 1))) \o SP \o Fmt02X(And0xFF(params[1])) \o SP \o
  Fmt02X(And0xFF(params[3])) \o SP \o Fmt02X(And0xFF(params[4]))

\* one 4-tuple of definition_type 0x01
DefineByIdentifier(params) ==
  Fmt02X(And0xFF(Shr8(params[1], 1))) \o SP \o Fmt02X(And0xFF(params[1])) \o SP \o
  Fmt02X(And0xFF(Shr8(params[2], 1))) \o SP \o Fmt02X(And0xFF(params[2])) \o SP \o
  Fmt02X(And0xFF(params[3])) \o SP \o Fmt02X(And0xFF(params[4]))

\* the for loop of definition_type 0x01 over supporting_params
RECURSIVE DefineByIdentifierLoop(_, _)
DefineByIdentifierLoop(request, supporting_params) ==
  IF Len(supporting_params) = 0 THEN request
  ELSE DefineByIdentifierLoop(request \o SP \o DefineByIdentifier(supporting_params[1]),
                              Tail(supporting_params))

\* the for loop of definition_type 0x02: its first iteration applies & to the str
\* it has just formatted, which raises TypeError
DefineByMemoryAddressLoop(request, supporting_params) ==
  IF Len(supporting_params) = 0 THEN Ok(request) ELSE Raise("TypeError")

\* the method with the print of its else branch left out
dynamically_define_data_identifier_silent(definition_type, supporting_params) ==
  LET request == SidTok("DDDI") \o SP \o Fmt02X(definition_type)
  IN IF definition_type = 1
     THEN Ok(DefineByIdentifierLoop(request, supporting_params))
     ELSE IF definition_type = 2
     THEN DefineByMemoryAddressLoop(request, supporting_params)
     ELSE IF definition_type = 3
     THEN Ok(request \o SP \o Fmt02X(And0xFF(Shr8(supporting_params, 1)))
                     \o SP \o Fmt02X(And0xFF(supporting_params)))
     ELSE Ok(request)

dynamically_define_data_identifier(definition_type, supporting_params) ==
  LET request == SidTok("DDDI") \o SP \o Fmt02X(definition_type)
  IN IF definition_type = 1
     THEN Ok(DefineByIdentifierLoop(request, supporting_params))
     ELSE IF definition_type = 2
     THEN DefineByMemoryAddressLoop(request, supporting_params)
     ELSE IF definition_type = 3
     THEN Ok(request \o SP \o Fmt02X(And0xFF(Shr8(supporting_params, 1)))
                     \o SP \o Fmt02X(And0xFF(supporting_params)))
     ELSE [raised |-> "", str |-> request, printed |-> 1]

write_data_by_identifier(data_identifier, data_record) ==
  LET did == convert_int_to_str_of_bytes(data_identifier)
  IN Then(<<did>>, SidTok("WDBI") \o SP \o did.str \o SP \o MaskedList(data_record))

write_memory_by_address(address_and_length_format_identifier, memory_address, memory_size, data_record) ==
  LET fmt == convert_int_to_str_of_bytes(address_and_length_format_identifier)
      addr == convert_int_to_str_of_bytes(memory_address)
      size == convert_int_to_str_of_bytes(memory_size)
  IN Then(<<fmt, addr, size>>,
          SidTok("WMBA") \o SP \o fmt.str \o SP \o addr.str \o SP \o size.str
                         \o SP \o MaskedList(data_record))

\* ---- Stored data transmission

clear_diagnostic_information(group_of_dtc) ==
  LET group == convert_int_to_str_of_bytes(group_of_dtc)
  IN Then(<<group>>, SidTok("CDTCI") \o SP \o group.str)

read_dtc_information(report_type, remaining_arguments_list) ==
  LET rt == convert_int_to_str_of_bytes(report_type)
  IN Then(<<rt>>, SidTok("RDTCI") \o SP \o rt.str \o SP
                    \o MaskedList(remaining_arguments_list))

\* ---- Input Output control

input_output_control_by_identifier(data_identifier, control_option_record, control_enable_mask_record) ==
  LET did == convert_int_to_str_of_bytes(data_identifier)
      mask == IF IsNone(control_enable_mask_record) THEN <<>>
              ELSE MaskedList(control_enable_mask_record[1])
  IN Then(<<did>>, SidTok("IOCBI") \o SP \o did.str \o SP
                     \o MaskedList(control_option_record) \o SP \o mask)

\* ---- Remote activation of routine

routine_control(routine_control_type, routine_identifier, routine_control_option_record) ==
  LET rct == convert_int_to_str_of_bytes(routine_control_type)
      rid == convert_int_to_str_of_bytes(routine_identifier)
      option == IF IsNone(routine_control_option_record) THEN <<>>
                ELSE MaskedList(routine_control_option_record[1])
  IN Then(<<rct, rid>>, SidTok("RC") \o SP \o rct.str \o SP \o rid.str \o SP \o option)

\* ---- Upload download

request_download(data_format_identifier, address_and_length_format_identifier, memory_address, memory_size) ==
  LET dfi == Fmt02X(And0xFF(data_format_identifier))
      fmt == Fmt02X(And0xFF(address_and_length_format_identifier))
      addr == convert_int_to_str_of_bytes(memory_address)
      size == convert_int_to_str_of_bytes(memory_size)
  IN Then(<<addr, size>>,
          SidTok("RD") \o SP \o dfi \o SP \o fmt \o SP \o addr.str \o SP \o size.str)

request_upload(data_format_identifier, address_and_length_format_identifier, memory_address, memory_size) ==
  LET dfi == convert_int_to_str_of_bytes(data_format_identifier)
      fmt == convert_int_to_str_of_bytes(address_and_length_format_identifier)
      addr == convert_int_to_str_of_bytes(memory_address)
      size == convert_int_to_str_of_bytes(memory_size)
  IN Then(<<dfi, fmt, addr, size>>,
          SidTok("RU") \o SP \o dfi.str \o SP \o fmt.str \o SP \o addr.str
                       \o SP \o size.str)

transfer_data(block_sequence_counter, transfer_request_parameter_record) ==
  LET bsc == convert_int_to_str_of_bytes(block_sequence_counter)
  IN Then(<<bsc>>, SidTok("TD") \o SP \o bsc.str \o SP
                     \o MaskedList(transfer_request_parameter_record))

request_transfer_exit(transfer_request_parameter_record) ==
  IF IsNone(transfer_request_parameter_record)
  THEN Ok(SidTok("RTE"))
  ELSE Ok(SidTok("TD") \o SP \o MaskedList(transfer_request_parameter_record[1]))

\* f'{x & 0xFF:02X}' where x may be None: None & 0xFF raises TypeError
MaskOptional(x) ==
  IF IsNone(x) THEN Raise("TypeError") ELSE Ok(Fmt02X(And0xFF(x[1])))

\* the join over a record that may be None: iterating None raises TypeError
MaskedOptionalList(x) ==
  IF IsNone(x) THEN Raise("TypeError") ELSE Ok(MaskedList(x[1]))

request_file_transfer(mode_of_operation, file_path_and_name_length, file_path_and_name, data_format_identifier, file_size_parameter_length, file_size_uncompressed, file_size_compressed) ==
  LET mode == convert_int_to_str_of_bytes(mode_of_operation)
      len == convert_int_to_str_of_bytes(file_path_and_name_length)
      dfi == MaskOptional(data_format_identifier)
      fspl == MaskOptional(file_size_parameter_length)
      fsu == MaskedOptionalList(file_size_uncompressed)
      fsc == MaskedOptionalList(file_size_compressed)
  IN Then(<<mode, len, dfi, fspl, fsu, fsc>>,
          SidTok("RFT") \o SP \o mode.str \o SP \o len.str \o SP
            \o MaskedList(file_path_and_name) \o SP \o dfi.str \o SP \o fspl.str
            \o SP \o fsu.str \o SP \o fsc.str)

---------------------------------------------------------------------------
(* Arguments the caller may pass *)

\* every value of a one-byte parameter, and values below and above its range
Scalars == (0 - MaxNeg)..MaxVal

\* every value of a one-byte header field
Bytes == 0..255

\* one-byte parameters of the services with several parameters
FewScalars == {0, 1, 15, 16, 255, 256, 0 - 1}

\* elements of a record: in range, above the range, negative
ListVals == {10, 511, 0 - 2}

Lists == UNION {[1..n -> ListVals] : n \in 0..MaxLen}

\* records of the services with several records
FewLists == {<<>>, <<10>>, <<511, 0 - 2>>}

\* two-byte identifiers: 0xF190, 0x0102, 0x0001, 0x0100, 0x000A, 0, 0x12345
Dids == {61840, 258, 1, 256, 10, 0, 74565}

DidLists == UNION {[1..n -> {61840, 258, 1, 10}] : n \in 0..MaxLen}

\* addressAndLengthFormatIdentifier: every byte, and 0x114
Formats == Bytes \cup {276}

\* 0x44, 0x14, 0x11, 0x22, 0x24, 0x10, 0
FewFormats == {68, 20, 17, 34, 36, 16, 0}

\* memory addresses and sizes: 0, 1, 0x10, 0x100, 0x1000, 0x12345, 0x01020304
Addresses == {0, 1, 16, 256, 4096, 74565, 16909060}

\* 0, 0x10, 0x100, 0x1000, 0xFFFFFF
Sizes == {0, 16, 256, 4096, 16777215}

\* 3-byte link records: 0x0102FF, 0x010203, 0x00000A, 0
LinkRecords == {66303, 66051, 10, 0}

\* 4-tuples of dynamically_define_data_identifier
DefTuples == {<<61840, 258, 1, 4>>, <<10, 61840, 256, 511>>, <<61840, 20, 4096, 16>>}

DefLists == UNION {[1..n -> DefTuples] : n \in 0..MaxLen}

\* definition_type values that are none of 1, 2, 3
OtherDefinitionTypes == {0, 4, 15, 255, 256, 0 - 1}

\* the attributes of a held Sid object the caller stores into, and what: 0x99
AssignedNames == {"DSC"}

AssignedValues == {153}

\* the calls whose outcome the caller keeps for a later comparison
Remembered ==
  {<<"diagnostic_session_control", <<1>>>>,
   <<"dynamically_define_data_identifier", <<4, <<>>>>>>,
   <<"request_transfer_exit", <<None>>>>}

---------------------------------------------------------------------------
(* The state machine: the caller makes one call at a time *)

NoCall == [op |-> "", args |-> <<>>, after |-> <<>>]
NoResult == [raised |-> "", str |-> <<>>]
NoCatalog == [kind |-> "", obj |-> <<>>, assigned |-> {}]
NoMemo == [op |-> "", args |-> <<>>, result |-> NoResult, printed |-> 0]

\* the caller's argument objects after a call: no method stores into a list it
\* is passed, it reads the list in a comprehension and at most rebinds its own
\* parameter name to the joined str
ArgumentsAfter(op, args) == args

Init ==
  /\ pc = "idle"
  /\ call = NoCall
  /\ result = NoResult
  /\ printed = 0
  /\ cat = NoCatalog
  /\ memo = NoMemo

\* a builder call runs to its return or to its exception
Invoke(op, args, res) ==
  /\ pc = "idle"
  /\ pc' = "returned"
  /\ call' = [op |-> op, args |-> args, after |-> ArgumentsAfter(op, args)]
  /\ result' = [raised |-> res.raised, str |-> res.str]
  /\ printed' = res.printed
  /\ UNCHANGED <<cat, memo>>

\* services.sid as a property that hands out the catalog object it built before
GetSidCached ==
  /\ pc = "idle"
  /\ cat' = IF cat.kind = "Sid" THEN [cat EXCEPT !.assigned = {}]
            ELSE [kind |-> "Sid", obj |-> Sid, assigned |-> {}]
  /\ UNCHANGED <<pc, call, result, printed, memo>>

\* services.sid: the property builds a new Sid()
GetSid ==
  /\ pc = "idle"
  /\ cat' = [kind |-> "Sid", obj |-> Sid, assigned |-> {}]
  /\ UNCHANGED <<pc, call, result, printed, memo>>

GetSfid ==
  /\ pc = "idle"
  /\ cat' = [kind |-> "Sfid", obj |-> Sfid, assigned |-> {}]
  /\ UNCHANGED <<pc, call, result, printed, memo>>

GetNrc ==
  /\ pc = "idle"
  /\ cat' = [kind |-> "Nrc", obj |-> Nrc, assigned |-> {}]
  /\ UNCHANGED <<pc, call, result, printed, memo>>

\* the caller is done with the returned request
Return ==
  /\ pc = "returned"
  /\ pc' = "idle"
  /\ call' = NoCall
  /\ result' = NoResult
  /\ printed' = 0
  /\ UNCHANGED <<cat, memo>>

\* the caller stores into an attribute of the Sid object it holds
SetAttr ==
  /\ pc = "idle"
  /\ cat.kind = "Sid"
  /\ \E name \in AssignedNames, value \in AssignedValues :
       cat' = [cat EXCEPT !.obj[name] = value, !.assigned = @ \cup {name}]
  /\ UNCHANGED <<pc, call, result, printed, memo>>

\* the caller keeps a returned request to compare a later one with
Remember ==
  /\ pc = "returned"
  /\ memo = NoMemo
  /\ <<call.op, call.args>> \in Remembered
  /\ memo' = [op |-> call.op, args |-> call.args, result |-> result,
              printed |-> printed]
  /\ UNCHANGED <<pc, call, result, printed, cat>>

CallDiagnosticSessionControl ==
  /\ pc = "idle"
  /\ \E p \in Scalars :
       Invoke("diagnostic_session_control", <<p>>, diagnostic_session_control(p))

CallEcuReset ==
  /\ pc = "idle"
  /\ \E p \in Scalars : Invoke("ecu_reset", <<p>>, ecu_reset(p))

CallSecurityAccess ==
  /\ pc = "idle"
  /\ \E t \in FewScalars, r \in Opt(Lists) :
       Invoke("security_access", <<t, r>>, security_access(t, r))

CallCommunicationControl ==
  /\ pc = "idle"
  /\ \E c \in FewScalars, t \in {0, 1, 256}, n \in Opt(Dids) :
       Invoke("communication_control", <<c, t, n>>, communication_control(c, t, n))

CallTesterPresent ==
  /\ pc = "idle"
  /\ \E p \in Scalars : Invoke("tester_present", <<p>>, tester_present(p))

CallAccessTimingParameter ==
  /\ pc = "idle"
  /\ \E t \in FewScalars, r \in Opt(Lists) :
       Invoke("access_timing_parameter", <<t, r>>, access_timing_parameter(t, r))

CallSecuredDataTransmission ==
  /\ pc = "idle"
  /\ \E r \in Lists :
       Invoke("secured_data_transmission", <<r>>, secured_data_transmission(r))

CallControlDtcSetting ==
  /\ pc = "idle"
  /\ \E t \in FewScalars, r \in Opt(Lists) :
       Invoke("control_dtc_setting", <<t, r>>, control_dtc_setting(t, r))

CallResponseOnEvent ==
  /\ pc = "idle"
  /\ \E e \in FewScalars, w \in {2, 256}, r \in Opt(FewLists), q \in Opt(FewLists) :
       Invoke("response_on_event", <<e, w, r, q>>, response_on_event(e, w, r, q))

CallLinkControl ==
  /\ pc = "idle"
  /\ \E t \in FewScalars, m \in Opt(FewScalars), r \in Opt(LinkRecords) :
       Invoke("link_control", <<t, m, r>>, link_control(t, m, r))

CallReadDataByIdentifier ==
  /\ pc = "idle"
  /\ \E d \in DidLists :
       Invoke("read_data_by_identifier", <<d>>, read_data_by_identifier(d))

CallReadMemoryByAddress ==
  /\ pc = "idle"
  /\ \E f \in Formats, a \in Addresses, z \in Sizes :
       Invoke("read_memory_by_address", <<f, a, z>>, read_memory_by_address(f, a, z))

CallReadScalingDataByIdentifier ==
  /\ pc = "idle"
  /\ \E d \in Dids :
       Invoke("read_scaling_data_by_identifier", <<d>>,
              read_scaling_data_by_identifier(d))

CallReadDataByPeriodicIdentifier ==
  /\ pc = "idle"
  /\ \E t \in FewScalars, r \in Lists :
       Invoke("read_data_by_periodic_identifier", <<t, r>>,
              read_data_by_periodic_identifier(t, r))

CallDynamicallyDefineDataIdentifier ==
  /\ pc = "idle"
  /\ \/ \E t \in {1, 2}, ps \in DefLists :
          Invoke("dynamically_define_data_identifier", <<t, ps>>,
                 dynamically_define_data_identifier(t, ps))
     \/ \E d \in Dids :
          Invoke("dynamically_define_data_identifier", <<3, d>>,
                 dynamically_define_data_identifier(3, d))
     \/ \E t \in OtherDefinitionTypes, ps \in DefLists :
          Invoke("dynamically_define_data_identifier", <<t, ps>>,
                 dynamically_define_data_identifier(t, ps))

CallWriteDataByIdentifier ==
  /\ pc = "idle"
  /\ \E d \in Dids, r \in Lists :
       Invoke("write_data_by_identifier", <<d, r>>, write_data_by_identifier(d, r))

CallWriteMemoryByAddress ==
  /\ pc = "idle"
  /\ \E f \in FewFormats, a \in Addresses, z \in Sizes, r \in FewLists :
       Invoke("write_memory_by_address", <<f, a, z, r>>,
              write_memory_by_address(f, a, z, r))

CallClearDiagnosticInformation ==
  /\ pc = "idle"
  /\ \E g \in Addresses \cup Sizes :
       Invoke("clear_diagnostic_information", <<g>>, clear_diagnostic_information(g))

CallReadDtcInformation ==
  /\ pc = "idle"
  /\ \E t \in Bytes, r \in FewLists :
       Invoke("read_dtc_information", <<t, r>>, read_dtc_information(t, r))

CallInputOutputControlByIdentifier ==
  /\ pc = "idle"
  /\ \E d \in Dids, r \in FewLists, m \in Opt(FewLists) :
       Invoke("input_output_control_by_identifier", <<d, r, m>>,
              input_output_control_by_identifier(d, r, m))

CallRoutineControl ==
  /\ pc = "idle"
  /\ \E t \in Bytes, d \in Dids, r \in Opt(FewLists) :
       Invoke("routine_control", <<t, d, r>>, routine_control(t, d, r))

CallRequestDownload ==
  /\ pc = "idle"
  /\ \E d \in {0, 16, 256}, f \in FewFormats, a \in Addresses, z \in Sizes :
       Invoke("request_download", <<d, f, a, z>>, request_download(d, f, a, z))

CallRequestUpload ==
  /\ pc = "idle"
  /\ \E d \in {0, 16, 256}, f \in FewFormats, a \in Addresses, z \in Sizes :
       Invoke("request_upload", <<d, f, a, z>>, request_upload(d, f, a, z))

CallTransferData ==
  /\ pc = "idle"
  /\ \E b \in Bytes, r \in FewLists :
       Invoke("transfer_data", <<b, r>>, transfer_data(b, r))

CallRequestTransferExit ==
  /\ pc = "idle"
  /\ \E r \in Opt(Lists) :
       Invoke("request_transfer_exit", <<r>>, request_transfer_exit(r))

CallRequestFileTransfer ==
  /\ pc = "idle"
  /\ \E m \in {1, 16}, l \in {16, 255}, n \in FewLists, d \in Opt({16, 256}),
        k \in Opt({16}), u \in Opt(FewLists), c \in Opt(FewLists) :
       Invoke("request_file_transfer", <<m, l, n, d, k, u, c>>,
              request_file_transfer(m, l, n, d, k, u, c))

Next ==
  \/ GetSid
  \/ GetSfid
  \/ GetNrc
  \/ Return
  \/ CallDiagnosticSessionControl
  \/ CallEcuReset
  \/ CallSecurityAccess
  \/ CallCommunicationControl
  \/ CallTesterPresent
  \/ CallAccessTimingParameter
  \/ CallSecuredDataTransmission
  \/ CallControlDtcSetting
  \/ CallResponseOnEvent
  \/ CallLinkControl
  \/ CallReadDataByIdentifier
  \/ CallReadMemoryByAddress
  \/ CallReadScalingDataByIdentifier
  \/ CallReadDataByPeriodicIdentifier
  \/ CallDynamicallyDefineDataIdentifier
  \/ CallWriteDataByIdentifier
  \/ CallWriteMemoryByAddress
  \/ CallClearDiagnosticInformation
  \/ CallReadDtcInformation
  \/ CallInputOutputControlByIdentifier
  \/ CallRoutineControl
  \/ CallRequestDownload
  \/ CallRequestUpload
  \/ CallTransferData
  \/ CallRequestTransferExit
  \/ CallRequestFileTransfer

Spec == Init /\ [][Next]_vars

\* integers of every bit length 0..24: 2^k - 1 and 2^k
ConvertInputs ==
  (0..MaxConv) \cup {2 ^ k - 1 : k \in 0..24} \cup {2 ^ k : k \in 0..24}

CallConvertIntToStrOfBytes ==
  /\ pc = "idle"
  /\ \E v \in ConvertInputs :
       Invoke("convert_int_to_str_of_bytes", <<v>>, convert_int_to_str_of_bytes(v))

\* the codec on its own: every input is drawn and converted
NextConvert ==
  \/ CallConvertIntToStrOfBytes
  \/ Return

SpecConvert == Init /\ [][NextConvert]_vars

\* the builders together with a caller that holds on to a catalog object,
\* stores into it and compares requests
NextCaller ==
  \/ Next
  \/ SetAttr
  \/ Remember

SpecCaller == Init /\ [][NextCaller]_vars

---------------------------------------------------------------------------
(* Reading a request back: what the properties below are stated in *)

\* s.split(' '): the tokens between single spaces, empty ones included
RECURSIVE Split(_)
Split(s) ==
  IF \A i \in DOMAIN s : s[i] # " " THEN <<s>>
  ELSE LET i == CHOOSE i \in DOMAIN s : s[i] = " " /\ \A j \in 1..(i - 1) : s[j] # " "
       IN <<SubSeq(s, 1, i - 1)>> \o Split(SubSeq(s, i + 1, Len(s)))

\* the tokens that are not empty, in order
RECURSIVE NonEmpty(_)
NonEmpty(ts) ==
  IF Len(ts) = 0 THEN <<>>
  ELSE IF Len(ts[1]) = 0 THEN NonEmpty(Tail(ts))
  ELSE <<ts[1]>> \o NonEmpty(Tail(ts))

\* the token of a byte b in 0..255: two uppercase hex digits
HexByte(b) == <<HexDigits[(b \div 16) + 1], HexDigits[(b % 16) + 1]>>

IsHexByte(t) == \E b \in 0..255 : t = HexByte(b)

\* byte i (0 = least significant) of a non-negative v below 2^31
ByteOf(v, i) == IF i >= 4 THEN 0 ELSE (v \div (256 ^ i)) % 256

\* v as exactly width bytes, most significant first, as tokens
FixedWidth(v, width) == [k \in 1..width |-> HexByte(ByteOf(v, width - k))]

\* the tokens of a record, each element masked to 8 bits
RecordTokens(r) == [i \in 1..Len(r) |-> HexByte(r[i] % 256)]

Returned(op) == pc = "returned" /\ call.op = op

Tokens == Split(result.str)

\* no name of a catalog is stored twice with two different values
NoNameReassigned(init) ==
  \A i, j \in DOMAIN init : \A a, b \in 1..2 :
    init[i][a] = init[j][b] => init[i][3] = init[j][3]

SidNamesSettled == NoNameReassigned(SidInit)

SfidNamesSettled == NoNameReassigned(SfidInit)

NrcNamesSettled == NoNameReassigned(NrcInit)

\* the long name and the short alias of every concept of a catalog object agree
\* with each other and with the value of their statement
CatalogAgrees(obj, init) ==
  \A i \in DOMAIN init :
    /\ obj[init[i][1]] = obj[init[i][2]]
    /\ obj[init[i][1]] = init[i][3]

---------------------------------------------------------------------------
(* Properties *)

\* C1: in each of the catalogs Sid, Sfid and Nrc, the long name and the short
\* alias of every concept resolve to the same value, and no name is assigned
\* twice with different values.
C1_LongNameEqualsAlias ==
  /\ cat.kind = "Sid" => CatalogAgrees(cat.obj, SidInit) /\ SidNamesSettled
  /\ cat.kind = "Sfid" => CatalogAgrees(cat.obj, SfidInit) /\ SfidNamesSettled
  /\ cat.kind = "Nrc" => CatalogAgrees(cat.obj, NrcInit) /\ NrcNamesSettled

C1_Witness ==
  /\ cat.kind = "Sfid"
  /\ cat.obj["store_event"] = 1
  /\ cat.obj["SE"] = 1
  /\ cat.obj["report_wwh_obd_dtc_with_permanent_status"] = cat.obj["RWWHOBDDTCWPS"]

\* C2: every request a builder returns begins with one token, the SID the
\* catalog gives for the service that was invoked (the builders are named
\* after the long names of Sid).
C2_FirstTokenIsOwnSid ==
  (pc = "returned" /\ result.raised = "")
    => Tokens[1] = HexByte(Sid[call.op])

\* C3: every string a builder returns is a sequence of 2-digit uppercase hex
\* tokens separated by single spaces: no empty, short or long token, no
\* leading, trailing or doubled space.
C3_WellFormedTokens ==
  (pc = "returned" /\ result.raised = "")
    => \A i \in DOMAIN Tokens : IsHexByte(Tokens[i])

\* C4: for every p in 0..255, diagnostic_session_control(p), ecu_reset(p) and
\* tester_present(p) return exactly two tokens: the SID 10, 11 or 3E, then the
\* 2-digit uppercase hex of p.
C4_SidThenParameter ==
  /\ (Returned("diagnostic_session_control") /\ call.args[1] \in 0..255)
       => /\ result.raised = ""
          /\ result.str = <<"1", "0", " ">> \o HexByte(call.args[1])
  /\ (Returned("ecu_reset") /\ call.args[1] \in 0..255)
       => /\ result.raised = ""
          /\ result.str = <<"1", "1", " ">> \o HexByte(call.args[1])
  /\ (Returned("tester_present") /\ call.args[1] \in 0..255)
       => /\ result.raised = ""
          /\ result.str = <<"3", "E", " ">> \o HexByte(call.args[1])

C4_Witness ==
  /\ Returned("ecu_reset")
  /\ call.args = <<1>>
  /\ result.str = <<"1", "1", " ", "0", "1">>

\* C5: security_access(t) is the tokens 27 and t & 0xFF and nothing else without
\* a data record; with a record it is those two tokens and then one token per
\* element, masked, in input order: 2 + Len(record) tokens.
C5_SecurityAccessTokens ==
  Returned("security_access")
    => /\ result.raised = ""
       /\ Tokens = <<<<"2", "7">>, HexByte(call.args[1] % 256)>> \o
                   (IF IsNone(call.args[2]) THEN <<>>
                    ELSE RecordTokens(call.args[2][1]))

\* C6: read_data_by_identifier renders each identifier as two zero-padded
\* 2-digit hex tokens, high byte then low byte, in input order after the SID
\* 22: 1 + 2n tokens for n identifiers.
C6_IdentifiersAsTwoHexBytes ==
  Returned("read_data_by_identifier")
    => /\ result.raised = ""
       /\ Len(NonEmpty(Tokens)) = 1 + 2 * Len(call.args[1])
       /\ NonEmpty(Tokens)[1] = <<"2", "2">>
       /\ \A i \in DOMAIN call.args[1] :
            /\ NonEmpty(Tokens)[2 * i] = HexByte((call.args[1][i] \div 256) % 256)
            /\ NonEmpty(Tokens)[2 * i + 1] = HexByte(call.args[1][i] % 256)

\* C7: communication_control(c, t, node) is 28, c, t and then the node id as
\* two 2-digit hex tokens, high byte then low byte; without a node id it is
\* the first three tokens only.
C7_NodeIdAsTwoHexBytes ==
  Returned("communication_control")
    => /\ result.raised = ""
       /\ Tokens = <<<<"2", "8">>, HexByte(call.args[1] % 256),
                     HexByte(call.args[2] % 256)>> \o
                   (IF IsNone(call.args[3]) THEN <<>>
                    ELSE <<HexByte((call.args[3][1] \div 256) % 256),
                           HexByte(call.args[3][1] % 256)>>)

\* C8: read_memory_by_address renders the address as exactly (fmt & 0x0F)
\* bytes and then the size as exactly ((fmt >> 4) & 0x0F) bytes, each
\* big-endian, zero-padded and truncated to that width; when both nibbles are
\* at least 1 the request has 2 + low nibble + high nibble tokens.
C8_WidthsFromFormatNibbles ==
  Returned("read_memory_by_address")
    => LET lo == call.args[1] % 16
           hi == (call.args[1] \div 16) % 16
           fields == NonEmpty(Tokens)
       IN /\ result.raised = ""
          /\ Len(fields) = 2 + lo + hi
          /\ SubSeq(fields, 3, 2 + lo) = FixedWidth(call.args[2], lo)
          /\ SubSeq(fields, 3 + lo, 2 + lo + hi) = FixedWidth(call.args[3], hi)
          /\ (lo >= 1 /\ hi >= 1) => Len(Tokens) = 2 + lo + hi

C8_Witness ==
  /\ Returned("read_memory_by_address")
  /\ call.args = <<20, 4096, 256>>
  /\ NonEmpty(Tokens) = <<<<"2", "3">>, <<"2", "0">>, <<"0", "0">>, <<"0", "0">>,
                          <<"1", "0">>, <<"0", "0">>, <<"0", "0">>>>

\* C9: request_download and request_upload render memory_address as exactly
\* (format & 0x0F) bytes and memory_size as exactly ((format >> 4) & 0x0F)
\* bytes, big-endian and zero-padded: the nibbles of the format identifier,
\* not the magnitude of the value, decide the number of bytes.
C9_DownloadUploadWidthsFromFormat ==
  (Returned("request_download") \/ Returned("request_upload"))
    => LET lo == call.args[2] % 16
           hi == (call.args[2] \div 16) % 16
           fields == NonEmpty(Tokens)
       IN /\ result.raised = ""
          /\ SubSeq(fields, Len(fields) - lo - hi + 1, Len(fields) - hi)
               = FixedWidth(call.args[3], lo)
          /\ SubSeq(fields, Len(fields) - hi + 1, Len(fields))
               = FixedWidth(call.args[4], hi)

\* C10: a value v passed where one byte is expected appears as the single
\* 2-digit hex token of v & 0xFF, whatever its magnitude or sign: the
\* parameter of diagnostic_session_control and ecu_reset, the
\* transmission_mode of read_data_by_periodic_identifier and the
\* definition_type of dynamically_define_data_identifier.
C10_OneByteParametersMasked ==
  (\/ Returned("diagnostic_session_control")
   \/ Returned("ecu_reset")
   \/ Returned("read_data_by_periodic_identifier")
   \/ Returned("dynamically_define_data_identifier"))
    => (result.raised = "" => Tokens[2] = HexByte(call.args[1] % 256))

---------------------------------------------------------------------------
(* Arguments within their documented width *)

\* per builder, the kind of each parameter: "b" one byte, "d" two bytes,
\* "t" three bytes, "n" a non-negative integer, "l" a list of bytes, "dl" a
\* list of two-byte identifiers, "x" decided by another parameter; a leading
\* "o" marks an optional parameter
ArgKinds ==
  [diagnostic_session_control |-> <<"b">>,
   ecu_reset |-> <<"b">>,
   security_access |-> <<"b", "ol">>,
   communication_control |-> <<"b", "b", "od">>,
   tester_present |-> <<"b">>,
   access_timing_parameter |-> <<"b", "ol">>,
   secured_data_transmission |-> <<"l">>,
   control_dtc_setting |-> <<"b", "ol">>,
   response_on_event |-> <<"b", "b", "ol", "ol">>,
   link_control |-> <<"b", "ob", "ot">>,
   read_data_by_identifier |-> <<"dl">>,
   read_memory_by_address |-> <<"b", "n", "n">>,
   read_scaling_data_by_identifier |-> <<"d">>,
   read_data_by_periodic_identifier |-> <<"b", "l">>,
   dynamically_define_data_identifier |-> <<"b", "x">>,
   write_data_by_identifier |-> <<"d", "l">>,
   write_memory_by_address |-> <<"b", "n", "n", "l">>,
   clear_diagnostic_information |-> <<"t">>,
   read_dtc_information |-> <<"b", "l">>,
   input_output_control_by_identifier |-> <<"d", "l", "ol">>,
   routine_control |-> <<"b", "d", "ol">>,
   request_download |-> <<"b", "b", "n", "n">>,
   request_upload |-> <<"b", "b", "n", "n">>,
   transfer_data |-> <<"b", "l">>,
   request_transfer_exit |-> <<"ol">>,
   request_file_transfer |-> <<"b", "n", "l", "ob", "ob", "ol", "ol">>]

InWidth(kind, x) ==
  CASE kind = "b" -> x \in 0..255
    [] kind = "d" -> x \in 0..65535
    [] kind = "t" -> x \in 0..16777215
    [] kind = "n" -> x >= 0
    [] kind = "l" -> \A i \in DOMAIN x : x[i] \in 0..255
    [] kind = "dl" -> \A i \in DOMAIN x : x[i] \in 0..65535
    [] kind = "ob" -> IsNone(x) \/ x[1] \in 0..255
    [] kind = "od" -> IsNone(x) \/ x[1] \in 0..65535
    [] kind = "ot" -> IsNone(x) \/ x[1] \in 0..16777215
    [] kind = "ol" -> IsNone(x) \/ \A i \in DOMAIN x[1] : x[1][i] \in 0..255
    [] OTHER -> TRUE

\* the supporting_params of dynamically_define_data_identifier, by type
SupportingParamsInWidth(definition_type, ps) ==
  CASE definition_type = 1 ->
         \A i \in DOMAIN ps : /\ ps[i][1] \in 0..65535 /\ ps[i][2] \in 0..65535
                              /\ ps[i][3] \in 0..255 /\ ps[i][4] \in 0..255
    [] definition_type = 2 ->
         \A i \in DOMAIN ps : /\ ps[i][1] \in 0..65535 /\ ps[i][2] \in 0..255
                              /\ ps[i][3] >= 0 /\ ps[i][4] >= 0
    [] definition_type = 3 -> ps \in 0..65535
    [] OTHER -> TRUE

\* the call that ended was made with every argument within its width
WellFormedCall ==
  /\ pc = "returned"
  /\ call.op \in DOMAIN ArgKinds
  /\ \A i \in DOMAIN call.args : InWidth(ArgKinds[call.op][i], call.args[i])
  /\ call.op = "dynamically_define_data_identifier"
       => SupportingParamsInWidth(call.args[1], call.args[2])

\* C11: every builder called with non-negative arguments within the documented
\* widths returns a string and never raises, small values such as 0x00..0x0F
\* and identifiers with a zero high byte included.
C11_WellFormedCallsReturn ==
  WellFormedCall => result.raised = ""

\* C12: dynamically_define_data_identifier with a definition_type outside
\* {1, 2, 3} never raises, emits exactly one diagnostic message and returns
\* exactly two tokens, the SID 2C and the definition_type byte, whatever
\* supporting_params holds; with a definition_type in {1, 2, 3} it emits no
\* message.
C12_InvalidDefinitionType ==
  Returned("dynamically_define_data_identifier")
    => IF call.args[1] \in {1, 2, 3}
       THEN printed = 0
       ELSE /\ result.raised = ""
            /\ printed = 1
            /\ Len(Tokens) = 2
            /\ Tokens[1] = <<"2", "C">>
            /\ call.args[1] \in 0..255 => Tokens[2] = HexByte(call.args[1])

C12_Witness ==
  /\ Returned("dynamically_define_data_identifier")
  /\ call.args[1] = 4
  /\ Len(call.args[2]) = 2
  /\ printed = 1
  /\ result.str = <<"2", "C", " ", "0", "4">>

\* the two bytes of a two-byte identifier as tokens, high byte first
DidTokens(d) == <<HexByte((d \div 256) % 256), HexByte(d % 256)>>

\* the six tokens of a (targetDID, sourceDID, position, size) tuple
TupleTokens(t) ==
  DidTokens(t[1]) \o DidTokens(t[2]) \o <<HexByte(t[3] % 256), HexByte(t[4] % 256)>>

\* the sequences of a sequence, one after the other
RECURSIVE Concat(_)
Concat(ss) == IF Len(ss) = 0 THEN <<>> ELSE ss[1] \o Concat(Tail(ss))

\* C13: with definition_type 1 the request is the header 2C 01 and then, for
\* each 4-tuple in input order, six tokens: targetDID high, low, sourceDID
\* high, low, position & 0xFF, size & 0xFF; with definition_type 3 it is
\* 2C 03 and the high and low byte of the DID.
C13_DefineByIdentifierAndClear ==
  /\ (Returned("dynamically_define_data_identifier") /\ call.args[1] = 1)
       => /\ result.raised = ""
          /\ Tokens = <<<<"2", "C">>, <<"0", "1">>>> \o
                      Concat([i \in DOMAIN call.args[2] |-> TupleTokens(call.args[2][i])])
  /\ (Returned("dynamically_define_data_identifier") /\ call.args[1] = 3)
       => /\ result.raised = ""
          /\ Tokens = <<<<"2", "C">>, <<"0", "3">>>> \o DidTokens(call.args[2])

C13_Witness ==
  /\ Returned("dynamically_define_data_identifier")
  /\ call.args = <<1, <<<<61840, 258, 1, 4>>, <<10, 61840, 256, 511>>>>>>
  /\ Len(Tokens) = 14
  /\ SubSeq(Tokens, 9, 14) = <<<<"0", "0">>, <<"0", "A">>, <<"F", "1">>,
                               <<"9", "0">>, <<"0", "0">>, <<"F", "F">>>>

\* the tokens of a (targetDID, addressLengthFormat, address, size) tuple
MemoryTupleTokens(t) ==
  DidTokens(t[1]) \o <<HexByte(t[2] % 256)>> \o
  FixedWidth(t[3], t[2] % 16) \o FixedWidth(t[4], (t[2] \div 16) % 16)

\* C14: with definition_type 2 and a non-empty list of 4-tuples the request
\* holds, for each tuple in input order, the two bytes of the targetDID, the
\* format byte, the address as (format & 0x0F) big-endian bytes and the size
\* as ((format >> 4) & 0x0F) big-endian bytes.
C14_DefineByMemoryAddress ==
  (/\ Returned("dynamically_define_data_identifier")
   /\ call.args[1] = 2
   /\ Len(call.args[2]) > 0)
    => /\ result.raised = ""
       /\ Tokens = <<<<"2", "C">>, <<"0", "2">>>> \o
                   Concat([i \in DOMAIN call.args[2] |->
                             MemoryTupleTokens(call.args[2][i])])

\* the byte a 2-digit hex token stands for
ByteOfToken(t) == CHOOSE b \in 0..255 : HexByte(b) = t

\* the number a sequence of byte tokens stands for, most significant first
RECURSIVE BigEndianValue(_)
BigEndianValue(ts) ==
  IF Len(ts) = 0 THEN 0
  ELSE 256 * BigEndianValue(SubSeq(ts, 1, Len(ts) - 1)) + ByteOfToken(ts[Len(ts)])

\* the fewest bytes that hold a non-negative v below 2^31
FewestBytes(v) ==
  IF v = 0 THEN 0
  ELSE IF v < 256 THEN 1
  ELSE IF v < 65536 THEN 2
  ELSE IF v < 16777216 THEN 3
  ELSE 4

\* C15: convert_int_to_str_of_bytes is total and lossless over the
\* non-negative integers: it returns the fewest 2-digit hex byte tokens that
\* hold v, big-endian, and reading them back gives v.
C15_ConvertTotalAndLossless ==
  (Returned("convert_int_to_str_of_bytes") /\ call.args[1] >= 0)
    => /\ result.raised = ""
       /\ Len(NonEmpty(Tokens)) = FewestBytes(call.args[1])
       /\ \A i \in DOMAIN NonEmpty(Tokens) : IsHexByte(NonEmpty(Tokens)[i])
       /\ BigEndianValue(NonEmpty(Tokens)) = call.args[1]

\* C18: request_file_transfer called with its three required parameters
\* only returns the SID 38 and the required fields: mode_of_operation,
\* file_path_and_name_length and the bytes of file_path_and_name; an optional
\* field adds tokens only when it is supplied.
C18_RequiredParametersOnly ==
  (/\ Returned("request_file_transfer")
   /\ \A i \in 4..7 : IsNone(call.args[i]))
    => /\ result.raised = ""
       /\ Tokens = <<<<"3", "8">>, HexByte(call.args[1]), HexByte(call.args[2])>> \o
                   RecordTokens(call.args[3])

\* C19: for every h in 0..255, transfer_data(h, record), routine_control(h,
\* id, record) and read_dtc_information(h, args) return a request whose second
\* token is the 2-digit hex of h; 0x01..0x0F are encoded as 01..0F and do not
\* fail.
C19_HeaderByteIsOneToken ==
  (/\ \/ Returned("transfer_data")
      \/ Returned("routine_control")
      \/ Returned("read_dtc_information")
   /\ call.args[1] \in 0..255)
    => /\ result.raised = ""
       /\ Tokens[2] = HexByte(call.args[1])

\* C20: for every d in 0..0xFFFF, write_data_by_identifier(d, record),
\* input_output_control_by_identifier(d, options) and routine_control(type, d)
\* render d as exactly two tokens, high byte then low byte, zero-padded, so
\* that what follows d always starts at the same token position.
C20_IdentifierIsTwoTokens ==
  /\ (/\ Returned("write_data_by_identifier") \/ Returned("input_output_control_by_identifier")
      /\ call.args[1] \in 0..65535)
       => /\ result.raised = ""
          /\ Len(Tokens) >= 3
          /\ SubSeq(Tokens, 2, 3) = DidTokens(call.args[1])
          /\ SubSeq(NonEmpty(Tokens), 4, 3 + Len(call.args[2])) = RecordTokens(call.args[2])
  /\ (Returned("routine_control") /\ call.args[2] \in 0..65535)
       => /\ result.raised = ""
          /\ Len(NonEmpty(Tokens)) >= 4
          /\ SubSeq(NonEmpty(Tokens), Len(NonEmpty(Tokens)) - 1 -
                      (IF IsNone(call.args[3]) THEN 0 ELSE Len(call.args[3][1])),
                    Len(NonEmpty(Tokens)) -
                      (IF IsNone(call.args[3]) THEN 0 ELSE Len(call.args[3][1])))
               = DidTokens(call.args[2])

SidValueTokens == {HexByte(SidInit[i][3]) : i \in DOMAIN SidInit}

\* every attribute of a catalog object that the caller has not stored into
\* holds the value of its statement
CatalogAsDefined(init) ==
  \A i \in DOMAIN init : \A a \in 1..2 :
    init[i][a] \notin cat.assigned => cat.obj[init[i][a]] = init[i][3]

C21_SingleByteFieldsInHex ==
  /\ (Returned("link_control") /\ ~IsNone(call.args[2]))
       => /\ result.raised = ""
          /\ Len(Tokens) >= 3
          /\ Tokens[3] = HexByte(call.args[2][1] % 256)
  /\ (Returned("link_control") /\ ~IsNone(call.args[3]))
       => /\ result.raised = ""
          /\ Len(Tokens) >= 5
          /\ SubSeq(Tokens, Len(Tokens) - 2, Len(Tokens))
               = FixedWidth(call.args[3][1] % 16777216, 3)
  /\ Returned("read_memory_by_address")
       => /\ result.raised = ""
          /\ Len(Tokens) >= 2
          /\ Tokens[2] = HexByte(call.args[1] % 256)

\* the values of the 27 concepts of Sid are pairwise distinct bytes
SidValuesDistinct ==
  /\ Len(SidInit) = 27
  /\ \A i \in DOMAIN SidInit : Sid[SidInit[i][1]] \in 0..255
  /\ \A i, j \in DOMAIN SidInit :
       i # j => Sid[SidInit[i][1]] # Sid[SidInit[j][1]]

\* the services of Sid whose value is rendered as a given first token
SidServicesOf ==
  [t \in {HexByte(Sid[SidInit[i][1]]) : i \in DOMAIN SidInit} |->
     {SidInit[i][1] : i \in {j \in DOMAIN SidInit : HexByte(Sid[SidInit[j][1]]) = t}}]

\* the request begins with the SID of the service the builder is named after
BeginsWithOwnSid(op, str) == Split(str)[1] = HexByte(Sid[op])

\* C22: the values of the 27 concepts of Sid are pairwise distinct and lie in
\* 0..0xFF; a request that begins with its service's own SID begins with the
\* SID of no other service, and two requests of different builders that both
\* begin with their own SID differ in their first token.
C22_SidIdentifiesOneService ==
  /\ SidValuesDistinct
  /\ (pc = "returned" /\ result.raised = "" /\ BeginsWithOwnSid(call.op, result.str))
       => /\ SidServicesOf[Tokens[1]] = {call.op}
          /\ (/\ memo # NoMemo
              /\ memo.result.raised = ""
              /\ memo.op # call.op
              /\ BeginsWithOwnSid(memo.op, memo.result.str))
               => Tokens[1] # Split(memo.result.str)[1]

C22_Witness ==
  /\ Returned("ecu_reset")
  /\ result.raised = ""
  /\ Tokens[1] = <<"1", "1">>
  /\ memo.op = "diagnostic_session_control"
  /\ Split(memo.result.str)[1] = <<"1", "0">>
  /\ BeginsWithOwnSid("ecu_reset", result.str)
  /\ BeginsWithOwnSid("diagnostic_session_control", memo.result.str)

====
